---- MODULE Spec2Model ----
(***************************************************************************)
(* Drain Guard AI dashboard (src/frontend.py).                             *)
(*                                                                         *)
(* The program is a Streamlit script.  Every UI interaction re-runs the    *)
(* script from top to bottom: it fetches the two artifacts through the     *)
(* process-wide st.cache_resource cache, reads the five sidebar widgets,   *)
(* and, when both artifacts are usable, scales the reading, predicts a     *)
(* label, renders the status panel and then the confidence bar.            *)
(*                                                                         *)
(* Numbers.  Python floats are modelled in fixed point: temperatures and   *)
(* distances handed to the scaler are counted in tenths (the temperature   *)
(* slider's step is 0.1), probabilities and confidences in hundredths.     *)
(*                                                                         *)
(* The two pickled artifacts are opaque to the program.  They are modelled *)
(* as deterministic objects drawn from a small family that covers the      *)
(* outcomes the script distinguishes: a scaler fitted on five or on four   *)
(* columns, a classifier with or without predict_proba, one whose          *)
(* probabilities may disagree with predict, one that rejects part of the   *)
(* input domain.                                                           *)
(***************************************************************************)
EXTENDS Integers, Sequences, FiniteSets, TLC

VARIABLES
    cache,        \* st.cache_resource entry of load_artifacts: << >> or <<result>>
    loadCount,    \* how many times the body of load_artifacts has run
    diskAtLoad,   \* <<model file, scaler file>> as the body found them, << >> before
    pc,           \* position of the running script; "idle" between interactions
    runs,         \* interactions started so far
    rain_val, temp_val, water_dist, gas_val, wf_val,   \* sidebar widgets
    model, scaler,                                      \* line 101
    input_data, scaled_input, prediction, status_label, \* lines 135-165
    probs, confidence,                                  \* lines 211-216
    screen,       \* what this interaction has rendered so far
    calls,        \* artifact methods invoked by this interaction
    scalerArg,    \* the argument the last scaler.transform call received
    fault,        \* the exception this interaction raised, if any
    firstResult,  \* what the first run of load_artifacts' body returned
    failedBefore, \* an earlier interaction ended in a prediction error
    memo          \* an earlier finished interaction, kept for comparison

vars == <<cache, loadCount, diskAtLoad, pc, runs,
          rain_val, temp_val, water_dist, gas_val, wf_val,
          model, scaler, input_data, scaled_input, prediction, status_label,
          probs, confidence, screen, calls, scalerArg,
          fault, firstResult, failedBefore, memo>>

-----------------------------------------------------------------------------
(* Bounds and program constants *)

MaxRuns == 3          \* interactions per behaviour

TempMin == -100       \* st.slider(..., -10.0, 50.0, 25.0, 0.1), in tenths
TempMax == 500
TempDefault == 250
DistMin == 0          \* st.slider(..., 0, 1000, 792), in mm
DistMax == 1000
DistDefault == 792
MockNormal == 98      \* 0.98, in hundredths
MockBlocked == 85     \* 0.85, in hundredths
Tenths == 10          \* fixed-point unit of the modelled floats
Hundredths == 100     \* 1.0 as a probability

TempValues == {TempMin, TempDefault, TempMax}
DistValues == {DistMin, DistDefault, DistMax}

-----------------------------------------------------------------------------
(* Python values *)

None == [kind |-> "None"]
NoValue == [kind |-> "unset"]      \* a name not bound yet in this run

Raise(cause) == [raised |-> TRUE, cause |-> cause, value |-> None]
Return(v) == [raised |-> FALSE, cause |-> "", value |-> v]

\* int(b) for a bool
PyInt(b) == IF b THEN 1 ELSE 0

\* float(x) for a temperature already held as a float (tenths)
PyFloatOfFloat(x) == x

\* float(n) for an int: the same number, as a float (tenths)
PyFloatOfInt(n) == n * Tenths

\* truth value of an object in `if model and scaler`
Truthy(obj) == obj.kind # "None"

\* max(probs) for the two-entry probability row
PyMax(row) == IF row[1] >= row[2] THEN row[1] ELSE row[2]

-----------------------------------------------------------------------------
(* The artifacts *)

FileStates == {"missing", "corrupt", "ok"}

Classifiers ==
    { [kind |-> "classifier", proba |-> p, strict |-> s] :
        p \in {"none", "argmax", "calibrated"}, s \in BOOLEAN }

Scalers == { [kind |-> "scaler", n_features_in |-> n] : n \in {4, 5} }

\* the column means a fitted scaler subtracts (tenths for the float columns)
ScalerMean == <<0, 0, TempDefault, 500 * Tenths, 0>>

\* scaler.transform(X)
ScalerTransform(s, X) ==
    IF s.kind # "scaler"
    THEN Raise("object has no attribute 'transform'")
    ELSE IF Len(X) # s.n_features_in
    THEN Raise("X has 5 features, but the scaler is expecting 4")
    ELSE Return([i \in 1..Len(X) |-> X[i] - ScalerMean[i]])

\* the label the classifier's decision function gives a scaled row
Decision(x) == IF (x[1] = 1 /\ x[5] = 0) \/ x[4] < 0 THEN 0 ELSE 1

\* model.predict(X)[0]
ModelPredict(m, x) ==
    IF m.kind # "classifier"
    THEN Raise("object has no attribute 'predict'")
    ELSE IF m.strict /\ x[4] = DistMin * Tenths - ScalerMean[4]
    THEN Raise("Input out of the fitted range")
    ELSE Return(Decision(x))

\* model.predict_proba(X)[0]: <<P(class 0), P(class 1)>> in hundredths
ModelPredictProba(m, x) ==
    CASE m.kind # "classifier" \/ Len(x) = 0 -> Raise("predict_proba failed")
      [] m.proba = "none" -> Raise("no attribute predict_proba")
      [] m.proba = "argmax" ->
            Return(IF Decision(x) = 0
                   THEN (IF x[1] = 1 THEN <<95, 5>> ELSE <<70, 30>>)
                   ELSE <<10, 90>>)
      [] OTHER ->
            \* probabilities from a separate calibration: near the decision
            \* boundary they may favour the class predict did not return
            Return(IF Decision(x) = 0
                   THEN (IF x[1] = 1 THEN <<95, 5>> ELSE <<40, 60>>)
                   ELSE (IF x[2] = 1 THEN <<55, 45>> ELSE <<10, 90>>))

\* joblib.load(path)
JoblibLoad(file, blob) ==
    IF file = "ok" THEN Return(blob) ELSE Raise("cannot unpickle")

\* load_artifacts() without its try/except: a failing joblib.load escapes
load_artifacts_nocatch(mf, sf, mblob, sblob) ==
    IF mf = "missing" \/ sf = "missing" THEN Return(<<None, None>>)
    ELSE IF JoblibLoad(mf, mblob).raised THEN Raise("cannot unpickle")
    ELSE IF JoblibLoad(sf, sblob).raised THEN Raise("cannot unpickle")
    ELSE Return(<<mblob, sblob>>)

\* load_artifacts(): the body, lines 84-99
load_artifacts(mf, sf, mblob, sblob) ==
    IF mf = "missing" \/ sf = "missing"
    THEN Return(<<None, None>>)
    ELSE LET m == JoblibLoad(mf, mblob)
             s == JoblibLoad(sf, sblob)
         IN  IF m.raised \/ s.raised
             THEN Return(<<None, None>>)          \* except Exception
             ELSE Return(<<m.value, s.value>>)

-----------------------------------------------------------------------------
(* The script *)

BlankScreen == [panel |-> "", progress |-> -1, error |-> "",
                warning |-> FALSE, exception |-> FALSE]
NoCalls == [transform |-> 0, predict |-> 0, proba |-> 0]
NoFault == [at |-> "", cause |-> ""]

\* the script positions in program order
NextPos(at) ==
    CASE at = "load" -> "guard"
      [] at = "guard" -> "assemble"
      [] at = "assemble" -> "transform"
      [] at = "transform" -> "predict"
      [] at = "predict" -> "panel"
      [] at = "panel" -> "proba"
      [] at = "proba" -> "progress"
      [] OTHER -> "idle"

\* the try of line 144 opened one statement too late: predict is outside it
HandlerNarrow(at) ==
    CASE at \in {"transform", "panel", "progress"} -> "report"
      [] at = "proba" -> "pass"
      [] OTHER -> "none"

\* a bare `except: pass` around the scaling and prediction calls as well
HandlerSwallow(at) ==
    CASE at \in {"panel", "progress"} -> "report"
      [] at \in {"transform", "predict", "proba"} -> "pass"
      [] OTHER -> "none"

\* the except clause guarding a script position: try of line 144 with the
\* except of line 226, try of line 214 with the except of line 217
Handler(at) ==
    CASE at \in {"transform", "predict", "panel", "progress"} -> "report"
      [] at = "proba" -> "pass"
      [] OTHER -> "none"

\* an except clause that also clears the resource cache
OnRaiseInvalidate(at, cause, scr, c) ==
    CASE Handler(at) = "report" ->
            [screen |-> [scr EXCEPT !.error = cause], cache |-> << >>, pc |-> "idle"]
      [] Handler(at) = "pass" ->
            [screen |-> scr, cache |-> c, pc |-> NextPos(at)]
      [] OTHER ->
            [screen |-> [scr EXCEPT !.exception = TRUE], cache |-> c, pc |-> "idle"]

\* what an exception raised at a script position does to the screen and to
\* the process-wide cache, and where the script goes on
OnRaise(at, cause, scr, c) ==
    CASE Handler(at) = "report" ->
            [screen |-> [scr EXCEPT !.error = cause], cache |-> c, pc |-> "idle"]
      [] Handler(at) = "pass" ->
            [screen |-> scr, cache |-> c, pc |-> NextPos(at)]
      [] OTHER ->
            [screen |-> [scr EXCEPT !.exception = TRUE], cache |-> c, pc |-> "idle"]

\* `if (model, scaler):` a two-element tuple is always true
ArtifactsUsableTuple(m, s) == TRUE

\* the guard of line 132
ArtifactsUsable(m, s) == Truthy(m) /\ Truthy(s)

\* the columns in the sidebar's order instead of the training order
FeatureRowSidebarOrder(gas, rain, temp, dist, wf) ==
    <<PyInt(rain), PyFloatOfFloat(temp), PyFloatOfInt(dist), PyInt(gas), PyInt(wf)>>

\* lines 135-141
FeatureRow(gas, rain, temp, dist, wf) ==
    <<PyInt(gas), PyInt(rain), PyFloatOfFloat(temp), PyFloatOfInt(dist), PyInt(wf)>>

\* the two branches of the mapping exchanged
StatusOfSwapped(label) == IF label = 0 THEN "NORMAL" ELSE "BLOCKED"

\* lines 152-165
StatusOf(label) == IF label = 0 THEN "BLOCKED" ELSE "NORMAL"

\* a placeholder kept across reruns and lowered by each one
MockConfidenceDrift(status) ==
    IF status = "NORMAL" THEN MockNormal - runs ELSE MockBlocked - runs

\* line 211
MockConfidence(status) == IF status = "NORMAL" THEN MockNormal ELSE MockBlocked

\* line 216
ConfidenceOf(row, label) == PyMax(row)

\* load_artifacts without the st.cache_resource decorator
CacheHitNever(c) == FALSE

\* st.cache_resource: is there an entry for load_artifacts()
CacheHit(c) == Len(c) > 0

Reading == <<gas_val, rain_val, temp_val, water_dist, wf_val>>

Locals == <<model, scaler, input_data, scaled_input, prediction, status_label,
            probs, confidence>>
Widgets == <<rain_val, temp_val, water_dist, gas_val, wf_val>>
Process == <<cache, loadCount, diskAtLoad, firstResult>>

Init ==
    /\ cache = << >>
    /\ loadCount = 0
    /\ diskAtLoad = << >>
    /\ firstResult = << >>
    /\ pc = "idle"
    /\ runs = 0
    /\ rain_val = FALSE /\ temp_val = TempDefault /\ water_dist = DistDefault
    /\ gas_val = FALSE /\ wf_val = TRUE
    /\ model = NoValue /\ scaler = NoValue
    /\ input_data = << >> /\ scaled_input = << >>
    /\ prediction = -1 /\ status_label = ""
    /\ probs = << >> /\ confidence = -1
    /\ screen = BlankScreen
    /\ calls = NoCalls
    /\ scalerArg = << >>
    /\ fault = NoFault
    /\ failedBefore = FALSE
    /\ memo = << >>

\* A widget changes (or a session opens): the script starts over with fresh
\* names and an empty page.
Rerun ==
    /\ pc = "idle"
    /\ runs < MaxRuns
    /\ runs' = runs + 1
    /\ rain_val' \in BOOLEAN
    /\ gas_val' \in BOOLEAN
    /\ wf_val' \in BOOLEAN
    /\ temp_val' \in TempValues
    /\ water_dist' \in DistValues
    /\ model' = NoValue /\ scaler' = NoValue
    /\ input_data' = << >> /\ scaled_input' = << >>
    /\ prediction' = -1 /\ status_label' = ""
    /\ probs' = << >> /\ confidence' = -1
    /\ screen' = BlankScreen
    /\ calls' = NoCalls
    /\ scalerArg' = << >>
    /\ fault' = NoFault
    /\ failedBefore' = (failedBefore \/ screen.error # "")
    /\ memo' \in {memo} \cup (IF runs > 0 /\ Len(cache) > 0 /\ memo = << >>
                               THEN {<<Reading, cache[1], screen>>} ELSE {})
    /\ pc' = "load"
    /\ UNCHANGED Process

\* line 101 on a cache hit: the stored result, the body does not run
LoadCached ==
    /\ pc = "load"
    /\ CacheHit(cache)
    /\ model' = cache[1][1]
    /\ scaler' = cache[1][2]
    /\ pc' = NextPos("load")
    /\ UNCHANGED <<Process, runs, Widgets, input_data, scaled_input, prediction,
                   status_label, probs, confidence, screen, calls, scalerArg,
                   fault, failedBefore, memo>>

\* line 101 on a cache miss: the body runs against the files as they are
LoadFresh ==
    /\ pc = "load"
    /\ ~CacheHit(cache)
    /\ \E mf \in FileStates, sf \in FileStates, mblob \in Classifiers, sblob \in Scalers :
         LET got == load_artifacts(mf, sf, mblob, sblob)
         IN  /\ loadCount' = loadCount + 1
             /\ diskAtLoad' = <<mf, sf>>
             /\ IF got.raised
                THEN LET r == OnRaise("load", got.cause, screen, cache)
                     IN  /\ screen' = r.screen
                         /\ cache' = r.cache
                         /\ pc' = "idle"
                         /\ fault' = [at |-> "load", cause |-> got.cause]
                         /\ UNCHANGED <<model, scaler, firstResult>>
                ELSE /\ cache' = <<got.value>>
                     /\ firstResult' = IF loadCount = 0 THEN got.value ELSE firstResult
                     /\ model' = got.value[1]
                     /\ scaler' = got.value[2]
                     /\ pc' = NextPos("load")
                     /\ UNCHANGED <<screen, fault>>
    /\ UNCHANGED <<runs, Widgets, input_data, scaled_input, prediction, status_label,
                   probs, confidence, calls, scalerArg, failedBefore, memo>>

\* line 132 and the else branch of lines 229-230
Guard ==
    /\ pc = "guard"
    /\ IF ArtifactsUsable(model, scaler)
       THEN /\ pc' = NextPos("guard")
            /\ UNCHANGED screen
       ELSE /\ screen' = [screen EXCEPT !.warning = TRUE]
            /\ pc' = "idle"
    /\ UNCHANGED <<Process, runs, Widgets, Locals, calls, scalerArg, fault,
                   failedBefore, memo>>

\* lines 135-141: input_data = pd.DataFrame([{...}])
Assemble ==
    /\ pc = "assemble"
    /\ input_data' = FeatureRow(gas_val, rain_val, temp_val, water_dist, wf_val)
    /\ pc' = NextPos("assemble")
    /\ UNCHANGED <<Process, runs, Widgets, model, scaler, scaled_input, prediction,
                   status_label, probs, confidence, screen, calls, scalerArg,
                   fault, failedBefore, memo>>

\* line 146: scaled_input = scaler.transform(input_data)
Transform ==
    /\ pc = "transform"
    /\ calls' = [calls EXCEPT !.transform = @ + 1]
    /\ scalerArg' = input_data
    /\ LET got == ScalerTransform(scaler, input_data)
       IN  IF got.raised
           THEN LET r == OnRaise("transform", got.cause, screen, cache)
                IN  /\ screen' = r.screen
                    /\ cache' = r.cache
                    /\ pc' = r.pc
                    /\ fault' = [at |-> "transform", cause |-> got.cause]
                    /\ UNCHANGED scaled_input
           ELSE /\ scaled_input' = got.value
                /\ pc' = NextPos("transform")
                /\ UNCHANGED <<screen, cache, fault>>
    /\ UNCHANGED <<loadCount, diskAtLoad, firstResult, runs, Widgets, model, scaler,
                   input_data, prediction, status_label, probs, confidence,
                   failedBefore, memo>>

\* line 149: prediction = model.predict(scaled_input)[0]
Predict ==
    /\ pc = "predict"
    /\ calls' = [calls EXCEPT !.predict = @ + 1]
    /\ LET got == IF Len(scaled_input) = 0
                  THEN Raise("name 'scaled_input' is not defined")
                  ELSE ModelPredict(model, scaled_input)
       IN  IF got.raised
           THEN LET r == OnRaise("predict", got.cause, screen, cache)
                IN  /\ screen' = r.screen
                    /\ cache' = r.cache
                    /\ pc' = r.pc
                    /\ fault' = [at |-> "predict", cause |-> got.cause]
                    /\ UNCHANGED prediction
           ELSE /\ prediction' = got.value
                /\ pc' = NextPos("predict")
                /\ UNCHANGED <<screen, cache, fault>>
    /\ UNCHANGED <<loadCount, diskAtLoad, firstResult, runs, Widgets, model, scaler,
                   input_data, scaled_input, status_label, probs, confidence,
                   scalerArg, failedBefore, memo>>

\* lines 152-207: map the label and render the status panel and telemetry
RenderPanel ==
    /\ pc = "panel"
    /\ status_label' = StatusOf(prediction)
    /\ screen' = [screen EXCEPT !.panel = status_label']
    /\ pc' = NextPos("panel")
    /\ UNCHANGED <<Process, runs, Widgets, model, scaler, input_data, scaled_input,
                   prediction, probs, confidence, calls, scalerArg, fault,
                   failedBefore, memo>>

\* lines 211-218: the placeholder, then predict_proba under try/except: pass
Confidence ==
    /\ pc = "proba"
    /\ calls' = [calls EXCEPT !.proba = @ + 1]
    /\ LET got == ModelPredictProba(model, scaled_input)
       IN  IF got.raised
           THEN LET r == OnRaise("proba", got.cause, screen, cache)
                IN  /\ screen' = r.screen
                    /\ cache' = r.cache
                    /\ pc' = r.pc
                    /\ fault' = [at |-> "proba", cause |-> got.cause]
                    /\ confidence' = MockConfidence(status_label)
                    /\ UNCHANGED probs
           ELSE /\ probs' = got.value
                /\ confidence' = ConfidenceOf(got.value, prediction)
                /\ pc' = NextPos("proba")
                /\ UNCHANGED <<screen, cache, fault>>
    /\ UNCHANGED <<loadCount, diskAtLoad, firstResult, runs, Widgets, model, scaler,
                   input_data, scaled_input, prediction, status_label, scalerArg,
                   failedBefore, memo>>

\* lines 220-223: st.progress(confidence, ...), which rejects a value outside [0.0, 1.0]
Progress ==
    /\ pc = "progress"
    /\ IF confidence \in 0..Hundredths
       THEN /\ screen' = [screen EXCEPT !.progress = confidence]
            /\ pc' = NextPos("progress")
            /\ UNCHANGED <<cache, fault>>
       ELSE LET r == OnRaise("progress", "Progress Value has invalid value", screen, cache)
            IN  /\ screen' = r.screen
                /\ cache' = r.cache
                /\ pc' = "idle"
                /\ fault' = [at |-> "progress", cause |-> "Progress Value has invalid value"]
    /\ UNCHANGED <<loadCount, diskAtLoad, firstResult, runs, Widgets, Locals, calls,
                   scalerArg, failedBefore, memo>>

Next ==
    \/ Rerun
    \/ LoadCached
    \/ LoadFresh
    \/ Guard
    \/ Assemble
    \/ Transform
    \/ Predict
    \/ RenderPanel
    \/ Confidence
    \/ Progress

Spec == Init /\ [][Next]_vars

-----------------------------------------------------------------------------
(* Properties *)

Finished == pc = "idle" /\ runs > 0
Bit(b) == IF b THEN 1 ELSE 0

\* C1: whenever a status is displayed, it is BLOCKED for the classifier's
\* label 0 and NORMAL for the label 1, and nothing else.
C1_LabelMapping ==
    screen.panel # "" =>
        \/ prediction = 0 /\ screen.panel = "BLOCKED"
        \/ prediction = 1 /\ screen.panel = "NORMAL"

C1_Witness ==
    /\ memo # << >>
    /\ memo[3].panel = "NORMAL"
    /\ screen.panel = "BLOCKED"
    /\ prediction = 0

\* C2: once the first load has returned (None, None), no interaction calls
\* scaler.transform, model.predict or model.predict_proba, none shows a status
\* or a confidence, and every finished interaction shows the warning.
C2_NoInferenceWhenUnavailable ==
    (loadCount > 0 /\ firstResult = <<None, None>>) =>
        /\ calls = NoCalls
        /\ screen.panel = ""
        /\ screen.progress = -1
        /\ Finished => screen.warning

C2_Witness ==
    /\ firstResult = <<None, None>>
    /\ diskAtLoad = <<"corrupt", "ok">>
    /\ runs = MaxRuns
    /\ Finished
    /\ screen.warning

\* C3: load_artifacts never raises; it returns (None, None) when either file
\* is missing or fails to deserialize, and the loaded (model, scaler) pair
\* when both files are there and both deserialize.
C3_LoadAllOrNothing ==
    /\ fault.at # "load"
    /\ ~screen.exception
    /\ loadCount > 0 =>
         /\ Len(cache) = 1
         /\ IF diskAtLoad = <<"ok", "ok">>
            THEN cache[1][1].kind = "classifier" /\ cache[1][2].kind = "scaler"
            ELSE cache[1] = <<None, None>>

C3_Witness ==
    /\ loadCount > 0
    /\ diskAtLoad = <<"ok", "corrupt">>
    /\ cache = <<(<<None, None>>)>>

\* C4, as claimed: a failure in any of the steps from assembling the feature
\* row to computing the confidence is reported as a Prediction System Error
\* carrying its cause, and never escapes.
C4_EveryFailureReported ==
    fault.at \in {"assemble", "transform", "predict", "panel", "proba"} =>
        /\ screen.error = fault.cause
        /\ ~screen.exception

\* C4, amended: a failure of scaler.transform or model.predict ends the
\* interaction with the Prediction System Error carrying its cause; a failure
\* of model.predict_proba is passed over without a message and the
\* placeholder confidence stands beside the status; nothing escapes.
C4_FailureHandling ==
    /\ ~screen.exception
    /\ fault.at \in {"transform", "predict"} =>
         /\ fault.cause # ""
         /\ screen.error = fault.cause
         /\ pc = "idle"
         /\ screen.panel = ""
    /\ fault.at = "proba" =>
         /\ screen.error = ""
         /\ screen.panel = status_label
         /\ confidence = (IF status_label = "NORMAL" THEN MockNormal ELSE MockBlocked)
         /\ Finished => screen.progress = confidence

C4_Witness ==
    /\ failedBefore
    /\ fault.at = "proba"
    /\ Finished
    /\ screen.panel = "BLOCKED"
    /\ screen.progress = MockBlocked

\* C5: after an interaction that ended in a prediction error, the artifacts
\* are still the ones first loaded, and an interaction whose reading scales
\* and predicts shows the status and the confidence those artifacts give it.
C5_FailureIsScoped ==
    (failedBefore /\ Len(cache) > 0) =>
        /\ cache[1] = firstResult
        /\ Finished =>
             LET row == <<Bit(gas_val), Bit(rain_val), temp_val,
                          water_dist * Tenths, Bit(wf_val)>>
                 sc == ScalerTransform(firstResult[2], row)
                 pr == ModelPredict(firstResult[1], sc.value)
                 pp == ModelPredictProba(firstResult[1], sc.value)
                 st == IF pr.value = 0 THEN "BLOCKED" ELSE "NORMAL"
             IN  (~sc.raised /\ ~pr.raised) =>
                    /\ screen.error = ""
                    /\ screen.panel = st
                    /\ screen.progress =
                         (IF pp.raised
                          THEN (IF st = "NORMAL" THEN MockNormal ELSE MockBlocked)
                          ELSE (IF pp.value[1] >= pp.value[2]
                                THEN pp.value[1] ELSE pp.value[2]))

C5_Witness ==
    /\ failedBefore
    /\ Finished
    /\ screen.panel = "NORMAL"
    /\ screen.progress >= 0
    /\ screen.error = ""

\* C6, as claimed: a confidence taken from predict_proba lies in [0, 1] and is
\* the probability of the class predict returned.
C6_ConfidenceOfStatus ==
    (probs # << >> /\ prediction \in {0, 1}) =>
        /\ confidence \in 0..Hundredths
        /\ confidence = probs[prediction + 1]

\* C7: two finished interactions with the same five widget values and the
\* same cached artifacts show the same page: status, confidence, error.
C7_Deterministic ==
    (/\ memo # << >>
     /\ Finished
     /\ Len(cache) > 0
     /\ memo[1] = Reading
     /\ memo[2] = cache[1]) => screen = memo[3]

C7_Witness ==
    /\ memo # << >>
    /\ Finished
    /\ runs = MaxRuns
    /\ Len(cache) > 0
    /\ memo[1] = Reading
    /\ memo[2] = cache[1]
    /\ screen.panel = "BLOCKED"
    /\ screen.progress = 60

\* C8: the row handed to scaler.transform has five entries, in the order
\* toxic gas, raining, temperature, water distance, water flowing; booleans
\* are 0 or 1, temperature and distance are the widget values.
C8_FeatureRow ==
    calls.transform > 0 =>
        /\ Len(scalerArg) = 5
        /\ scalerArg[1] = Bit(gas_val)
        /\ scalerArg[2] = Bit(rain_val)
        /\ scalerArg[3] = temp_val
        /\ scalerArg[4] = water_dist * Tenths
        /\ scalerArg[5] = Bit(wf_val)

C8_Witness ==
    /\ calls.transform > 0
    /\ gas_val /\ ~rain_val /\ ~wf_val
    /\ temp_val = TempMin
    /\ water_dist = DistMax
    /\ scalerArg = <<1, 0, TempMin, DistMax * Tenths, 0>>

\* C9: the body of load_artifacts runs at most once; every interaction works
\* with the result of that first run, and the cached pair never changes.
C9_LoadedOnce ==
    /\ loadCount <= 1
    /\ Len(cache) > 0 => cache[1] = firstResult
    /\ pc \notin {"idle", "load"} => <<model, scaler>> = firstResult

C9_Witness ==
    /\ runs = MaxRuns
    /\ loadCount = 1
    /\ pc = "transform"
    /\ <<model, scaler>> = firstResult

\* C10, as claimed: at most one inference per interaction, and a status panel
\* is on the page only when scaling, prediction and the confidence
\* computation have all run, and run without failing.
C10_InferenceBeforeRender ==
    /\ calls.transform <= 1 /\ calls.predict <= 1 /\ calls.proba <= 1
    /\ screen.panel # "" =>
         /\ calls.transform = 1 /\ calls.predict = 1 /\ calls.proba = 1
         /\ fault.at = ""

\* C10, amended: each of transform, predict and predict_proba is called at
\* most once per interaction; the panel is rendered only after scaling and
\* prediction have succeeded; predict_proba is called only after the panel
\* is on the page, and the panel stays there if predict_proba fails.
C10_PanelAfterPrediction ==
    /\ calls.transform <= 1 /\ calls.predict <= 1 /\ calls.proba <= 1
    /\ screen.panel # "" =>
         /\ calls.transform = 1 /\ calls.predict = 1
         /\ fault.at \notin {"transform", "predict"}
         /\ screen.error = ""
         /\ prediction \in {0, 1}
    /\ calls.proba > 0 => screen.panel # ""

C10_Witness ==
    /\ Finished
    /\ fault.at = "proba"
    /\ calls = [transform |-> 1, predict |-> 1, proba |-> 1]
    /\ screen.panel = "NORMAL"

====
